---- MODULE Spec2Model ----
(***************************************************************************)
(* UAE Promo Pulse - data validator (src/validator.py).                    *)
(*                                                                         *)
(* A raw scalar is a record [kind, m, e, s]:                               *)
(*   kind = "none"   Python None                                           *)
(*   kind = "nan"    float('nan'), the null of a pandas numeric column     *)
(*   kind = "inf"    float infinity, sign in m (1 or -1)                   *)
(*   kind = "int"    Python int m                                          *)
(*   kind = "float"  finite float, the exact decimal m / 10^e              *)
(*   kind = "str"    text, s the sequence of its characters                *)
(* Text is a sequence of one-character strings so that strip(), float()   *)
(* and the timestamp pattern are computed character by character.          *)
(***************************************************************************)
EXTENDS Integers, Sequences, FiniteSets, TLC

VARIABLES
    pc,        \* "ready" before the call under study, "done" after it
    op,        \* name of the function that was called ("" before)
    a,         \* first raw argument of a rule call
    b,         \* second raw argument (validate_cost_constraint only)
    ruleOut,   \* (valid, msg) returned by the rule call
    rec,       \* record argument of a record-level call
    recOut,    \* list of issues returned by the record-level call
    df,        \* dataset given to validate_dataset
    kind,      \* dataset_type given to validate_dataset
    result,    \* issue sequence returned by validate_dataset
    issues,    \* DataValidator.issues
    firstCall, \* the first validate_dataset call on df: its kind and what it returned
    lookup,    \* issue_type given to get_policy
    policy,    \* policy returned by get_policy
    policies,  \* CleaningPolicies.POLICIES
    work,      \* a chunked validation: its kind and the state of each chunk's worker
    chunked    \* concatenation of the chunk results

policyVars == <<lookup, policy, policies>>
chunkVars == <<work, chunked>>

vars ==
    <<pc, op, a, b, ruleOut, rec, recOut, df, kind, result, issues, firstCall,
      policyVars, chunkVars>>

-----------------------------------------------------------------------------
(* Raw scalar values *)

NoneV == [kind |-> "none", m |-> 0, e |-> 0, s |-> <<>>]
NaN == [kind |-> "nan", m |-> 0, e |-> 0, s |-> <<>>]
InfV(sign) == [kind |-> "inf", m |-> sign, e |-> 0, s |-> <<>>]
IntV(n) == [kind |-> "int", m |-> n, e |-> 0, s |-> <<>>]
FloatV(mant, ex) == [kind |-> "float", m |-> mant, e |-> ex, s |-> <<>>]
StrV(chars) == [kind |-> "str", m |-> 0, e |-> 0, s |-> chars]

RECURSIVE Pow10(_)
Pow10(n) == IF n = 0 THEN 1 ELSE 10 * Pow10(n - 1)

(* Characters *)

DigitChars == <<"0", "1", "2", "3", "4", "5", "6", "7", "8", "9">>

IsDigit(c) == \E i \in 1..10 : DigitChars[i] = c

DigitVal(c) == (CHOOSE i \in 1..10 : DigitChars[i] = c) - 1

\* str.isspace() characters of the alphabet in use
IsSpace(c) == c \in {" ", "\t", "\n", "\r"}

\* str.lower() on the letters float() reads case-insensitively
Lower(c) ==
    CASE c = "N" -> "n" [] c = "A" -> "a" [] c = "I" -> "i" [] c = "F" -> "f"
      [] c = "T" -> "t" [] c = "Y" -> "y" [] c = "E" -> "e" [] OTHER -> c

LowerAll(t) == [i \in 1..Len(t) |-> Lower(t[i])]

RECURSIVE LStrip(_)
LStrip(t) == IF t # <<>> /\ IsSpace(Head(t)) THEN LStrip(Tail(t)) ELSE t

RECURSIVE RStrip(_)
RStrip(t) ==
    IF t # <<>> /\ IsSpace(t[Len(t)]) THEN RStrip(SubSeq(t, 1, Len(t) - 1)) ELSE t

\* str.strip()
Strip(t) == RStrip(LStrip(t))

AllDigits(t) == \A i \in 1..Len(t) : IsDigit(t[i])

RECURSIVE DigitsToNat(_)
DigitsToNat(t) ==
    IF t = <<>> THEN 0
    ELSE 10 * DigitsToNat(SubSeq(t, 1, Len(t) - 1)) + DigitVal(t[Len(t)])

RECURSIVE NatToDigits(_)
NatToDigits(n) ==
    IF n < 10 THEN <<DigitChars[n + 1]>>
    ELSE NatToDigits(n \div 10) \o <<DigitChars[(n % 10) + 1]>>

\* position of the first occurrence of a character of cs in t, 0 when none
FirstOf(t, cs) ==
    IF \E i \in 1..Len(t) : t[i] \in cs
    THEN CHOOSE i \in 1..Len(t) : t[i] \in cs /\ \A j \in 1..(i - 1) : t[j] \notin cs
    ELSE 0

-----------------------------------------------------------------------------
(* float(), int(), str(), pd.isna(), comparisons *)

Fail == [ok |-> FALSE, v |-> NoneV]
Ok(v) == [ok |-> TRUE, v |-> v]

\* a finite float with a decimal exponent applied: m / 10^e * 10^x
Scaled(mant, ex, x) ==
    IF ex - x >= 0 THEN FloatV(mant, ex - x) ELSE FloatV(mant * Pow10(x - ex), 0)

\* float(str): surrounding whitespace, a sign, then nan / inf / infinity in any
\* case, or decimal digits with an optional point and an optional exponent.
\* ParseFloat splits the text step by step: sign, exponent, decimal point.
ParseNumber(sign, intT, fracT, hasExp, expSign, expDigits) ==
    IF /\ AllDigits(intT) /\ AllDigits(fracT) /\ Len(intT) + Len(fracT) > 0
       /\ (hasExp => (expDigits # <<>> /\ AllDigits(expDigits)))
    THEN Ok(Scaled(sign * DigitsToNat(intT \o fracT), Len(fracT),
                   IF hasExp THEN expSign * DigitsToNat(expDigits) ELSE 0))
    ELSE Fail

ParsePoint(sign, mantT, dot, hasExp, expT, expSigned) ==
    ParseNumber(sign,
                IF dot = 0 THEN mantT ELSE SubSeq(mantT, 1, dot - 1),
                IF dot = 0 THEN <<>> ELSE SubSeq(mantT, dot + 1, Len(mantT)),
                hasExp,
                IF expSigned /\ Head(expT) = "-" THEN -1 ELSE 1,
                IF expSigned THEN Tail(expT) ELSE expT)

ParseExponent(sign, mantT, hasExp, expT) ==
    ParsePoint(sign, mantT, FirstOf(mantT, {"."}), hasExp, expT,
               expT # <<>> /\ Head(expT) \in {"+", "-"})

ParseDecimal(sign, body, ePos) ==
    ParseExponent(sign,
                  IF ePos = 0 THEN body ELSE SubSeq(body, 1, ePos - 1),
                  ePos # 0,
                  IF ePos = 0 THEN <<>> ELSE SubSeq(body, ePos + 1, Len(body)))

ParseUnsigned(sign, body, low) ==
    IF low = <<"n", "a", "n">> THEN Ok(NaN)
    ELSE IF low = <<"i", "n", "f">> \/ low = <<"i", "n", "f", "i", "n", "i", "t", "y">>
         THEN Ok(InfV(sign))
    ELSE ParseDecimal(sign, body, FirstOf(body, {"e", "E"}))

ParseSigned(u, signed) ==
    ParseUnsigned(IF signed /\ Head(u) = "-" THEN -1 ELSE 1,
                  IF signed THEN Tail(u) ELSE u,
                  LowerAll(IF signed THEN Tail(u) ELSE u))

ParseStripped(u) == ParseSigned(u, u # <<>> /\ Head(u) \in {"+", "-"})

ParseFloat(t) == ParseStripped(Strip(t))

\* float(value): TypeError on None, ValueError on text that is no number
ToFloat(v) ==
    CASE v.kind = "none" -> Fail
      [] v.kind = "int" -> Ok(FloatV(v.m, 0))
      [] v.kind = "str" -> ParseFloat(v.s)
      [] OTHER -> Ok(v)

\* variant of ToInt that rounds to the nearest integer instead of truncating
ToIntRound(f) ==
    IF f.kind # "float" THEN Fail
    ELSE IF f.m >= 0 THEN Ok(IntV((2 * f.m + Pow10(f.e)) \div (2 * Pow10(f.e))))
    ELSE Ok(IntV(-((2 * (-f.m) + Pow10(f.e)) \div (2 * Pow10(f.e)))))

\* int(f) of a float: truncation toward zero; ValueError on nan,
\* OverflowError on infinity
ToInt(f) ==
    IF f.kind # "float" THEN Fail
    ELSE IF f.m >= 0 THEN Ok(IntV(f.m \div Pow10(f.e)))
    ELSE Ok(IntV(-((-f.m) \div Pow10(f.e))))

\* x < y on floats (every comparison with nan is False)
Lt(x, y) ==
    IF x.kind = "nan" \/ y.kind = "nan" THEN FALSE
    ELSE IF x.kind = "inf" THEN x.m = -1 /\ ~(y.kind = "inf" /\ y.m = -1)
    ELSE IF y.kind = "inf" THEN y.m = 1
    ELSE x.m * Pow10(y.e) < y.m * Pow10(x.e)

Gt(x, y) == Lt(y, x)

\* pd.isna(value) on a scalar
IsNa(v) == v.kind \in {"none", "nan"}

\* value == ''
IsEmptyStr(v) == v.kind = "str" /\ v.s = <<>>

RECURSIVE DropTrailingZeros(_)
DropTrailingZeros(t) ==
    IF Len(t) > 1 /\ t[Len(t)] = "0" THEN DropTrailingZeros(SubSeq(t, 1, Len(t) - 1))
    ELSE t

\* the digits of n left-padded with zeros to width w
PadDigits(n, w) ==
    LET d == NatToDigits(n)
    IN  [i \in 1..(w - Len(d)) |-> "0"] \o d

\* str(value): repr of an int or of a float in positional notation
ToStr(v) ==
    CASE v.kind = "str" -> v.s
      [] v.kind = "none" -> <<"N", "o", "n", "e">>
      [] v.kind = "nan" -> <<"n", "a", "n">>
      [] v.kind = "inf" -> (IF v.m < 0 THEN <<"-">> ELSE <<>>) \o <<"i", "n", "f">>
      [] v.kind = "int" -> (IF v.m < 0 THEN <<"-">> ELSE <<>>)
                             \o NatToDigits(IF v.m < 0 THEN -v.m ELSE v.m)
      [] OTHER ->
            LET mag == IF v.m < 0 THEN -v.m ELSE v.m
                ip == mag \div Pow10(v.e)
                fp == mag % Pow10(v.e)
                frac == IF v.e = 0 THEN <<"0">>
                        ELSE DropTrailingZeros(PadDigits(fp, v.e))
            IN  (IF v.m < 0 THEN <<"-">> ELSE <<>>) \o NatToDigits(ip) \o <<".">> \o frac

-----------------------------------------------------------------------------
(* ValidationRules: class constants *)

PRICE_MIN == 0
PRICE_MAX == 10000
QUANTITY_MIN == 1
QUANTITY_MAX == 100

VALID_CITIES ==
    { <<"D", "u", "b", "a", "i">>,
      <<"A", "b", "u", " ", "D", "h", "a", "b", "i">>,
      <<"S", "h", "a", "r", "j", "a", "h">> }

VALID_CHANNELS ==
    { <<"A", "p", "p">>,
      <<"W", "e", "b">>,
      <<"M", "a", "r", "k", "e", "t", "p", "l", "a", "c", "e">> }

VALID_PAYMENT_STATUS ==
    { <<"P", "a", "i", "d">>,
      <<"F", "a", "i", "l", "e", "d">>,
      <<"R", "e", "f", "u", "n", "d", "e", "d">> }

\* re.match(r'^\d{4}-\d{2}-\d{2} \d{2}:\d{2}:\d{2}$', t): nineteen characters
\* of that shape; Python's $ also matches just before one final newline
TIMESTAMP_PATTERN(t) ==
    LET core == IF Len(t) = 20 /\ t[20] = "\n" THEN SubSeq(t, 1, 19) ELSE t
    IN  /\ Len(core) = 19
        /\ \A i \in 1..19 :
              CASE i \in {5, 8} -> core[i] = "-"
                [] i = 11 -> core[i] = " "
                [] i \in {14, 17} -> core[i] = ":"
                [] OTHER -> IsDigit(core[i])

-----------------------------------------------------------------------------
(* pd.to_datetime on text that matched TIMESTAMP_PATTERN *)

IsLeap(y) == (y % 4 = 0 /\ y % 100 # 0) \/ y % 400 = 0

DaysInMonth(y, mo) ==
    CASE mo \in {4, 6, 9, 11} -> 30
      [] mo = 2 -> IF IsLeap(y) THEN 29 ELSE 28
      [] OTHER -> 31

\* the six numeric fields of a matched timestamp
TsFields(t) ==
    [ y |-> DigitsToNat(SubSeq(t, 1, 4)), mo |-> DigitsToNat(SubSeq(t, 6, 7)),
      d |-> DigitsToNat(SubSeq(t, 9, 10)), h |-> DigitsToNat(SubSeq(t, 12, 13)),
      mi |-> DigitsToNat(SubSeq(t, 15, 16)), sec |-> DigitsToNat(SubSeq(t, 18, 19)) ]

CalendarOk(f) ==
    /\ f.mo \in 1..12
    /\ f.d \in 1..DaysInMonth(f.y, f.mo)
    /\ f.h \in 0..23 /\ f.mi \in 0..59 /\ f.sec \in 0..59

\* lexicographic < on two equally long tuples of numbers
RECURSIVE LexLess(_, _)
LexLess(p, q) ==
    IF p = <<>> THEN FALSE
    ELSE Head(p) < Head(q) \/ (Head(p) = Head(q) /\ LexLess(Tail(p), Tail(q)))

\* pd.Timestamp.min = 1677-09-21 00:12:43.145224193 and
\* pd.Timestamp.max = 2262-04-11 23:47:16.854775807, at whole seconds
InNanosecondRange(f) ==
    LET t == <<f.y, f.mo, f.d, f.h, f.mi, f.sec>>
    IN  /\ ~LexLess(t, <<1677, 9, 21, 0, 12, 44>>)
        /\ ~LexLess(<<2262, 4, 11, 23, 47, 16>>, t)

\* The outcomes pd.to_datetime(text) can have: TRUE it returns, FALSE it raises.
\* A date that is no calendar date raises in every pandas.  A calendar date
\* outside the nanosecond range raises OutOfBoundsDatetime where parsing yields
\* datetime64[ns] and parses where the unit is inferred; and text that carries
\* the final newline is left to the parser pandas selects: both are the
\* choice of the installed pandas, not of this code.
to_datetime(t) ==
    LET f == TsFields(t)
    IN  IF ~CalendarOk(f) THEN {FALSE}
        ELSE IF InNanosecondRange(f) /\ Len(t) = 19 THEN {TRUE}
        ELSE {TRUE, FALSE}

-----------------------------------------------------------------------------
(* ValidationRules: the rules.  A result is (valid, msg); msg is the          *)
(* f-string's fixed text (tag) with the values it interpolates (args).       *)

NoMsg == [tag |-> "None", args |-> <<>>]
Msg(tag, args) == [tag |-> tag, args |-> args]
Res(valid, msg) == [valid |-> valid, msg |-> msg]
Pass == Res(TRUE, NoMsg)

\* variant of validate_timestamp that stops at the pattern and never parses
validate_timestamp_pattern_only(value) ==
    IF IsNa(value) \/ IsEmptyStr(value) THEN {Res(FALSE, Msg("Missing timestamp", <<>>))}
    ELSE IF ~TIMESTAMP_PATTERN(ToStr(value))
         THEN {Res(FALSE, Msg("Invalid format", <<value>>))}
    ELSE {Pass}

\* the set of results the call can return
validate_timestamp(value) ==
    IF IsNa(value) \/ IsEmptyStr(value) THEN {Res(FALSE, Msg("Missing timestamp", <<>>))}
    ELSE IF ~TIMESTAMP_PATTERN(ToStr(value))
         THEN {Res(FALSE, Msg("Invalid format", <<value>>))}
    ELSE { IF parsed THEN Pass ELSE Res(FALSE, Msg("Unparsable", <<value>>)) :
             parsed \in to_datetime(ToStr(value)) }

\* variant of validate_price that checks the lower bound only
validate_price_no_upper(value) ==
    LET p == ToFloat(value)
    IN  IF ~p.ok THEN Res(FALSE, Msg("Not numeric", <<value>>))
        ELSE IF Lt(p.v, FloatV(PRICE_MIN, 0))
             THEN Res(FALSE, Msg("Outside range", <<IntV(PRICE_MIN), IntV(PRICE_MAX), p.v>>))
        ELSE Pass

validate_price(value) ==
    LET p == ToFloat(value)
    IN  IF ~p.ok THEN Res(FALSE, Msg("Not numeric", <<value>>))
        ELSE IF Lt(p.v, FloatV(PRICE_MIN, 0)) \/ Gt(p.v, FloatV(PRICE_MAX, 0))
             THEN Res(FALSE, Msg("Outside range", <<IntV(PRICE_MIN), IntV(PRICE_MAX), p.v>>))
        ELSE Pass

validate_quantity(value) ==
    LET f == ToFloat(value)
        q == IF f.ok THEN ToInt(f.v) ELSE Fail
    IN  IF ~q.ok THEN Res(FALSE, Msg("Not numeric", <<value>>))
        ELSE IF q.v.m < QUANTITY_MIN \/ q.v.m > QUANTITY_MAX
             THEN Res(FALSE,
                      Msg("Outside range", <<IntV(QUANTITY_MIN), IntV(QUANTITY_MAX), q.v>>))
        ELSE Pass

\* variant of Membership that looks the untrimmed text up
MembershipNoStrip(value, valid_set, missing, invalid) ==
    IF IsNa(value) \/ IsEmptyStr(value) THEN Res(FALSE, Msg(missing, <<>>))
    ELSE LET x == ToStr(value)
         IN  IF x \notin valid_set THEN Res(FALSE, Msg(invalid, <<StrV(x)>>))
             ELSE Pass

\* the shared shape of validate_city / validate_channel / validate_payment_status
Membership(value, valid_set, missing, invalid) ==
    IF IsNa(value) \/ IsEmptyStr(value) THEN Res(FALSE, Msg(missing, <<>>))
    ELSE LET x == Strip(ToStr(value))
         IN  IF x \notin valid_set THEN Res(FALSE, Msg(invalid, <<StrV(x)>>))
             ELSE Pass

validate_city(value) == Membership(value, VALID_CITIES, "Missing city", "Invalid city")

validate_channel(value) ==
    Membership(value, VALID_CHANNELS, "Missing channel", "Invalid channel")

validate_payment_status(value) ==
    Membership(value, VALID_PAYMENT_STATUS, "Missing payment_status", "Invalid status")

\* variant of validate_cost_constraint that rejects cost = price as well
validate_cost_constraint_ge(cost, price) ==
    LET c == ToFloat(cost)
        p == ToFloat(price)
    IN  IF ~c.ok \/ ~p.ok THEN Pass
        ELSE IF ~Lt(c.v, p.v) THEN Res(FALSE, Msg("Cost > Price", <<c.v, p.v>>))
        ELSE Pass

validate_cost_constraint(cost, price) ==
    LET c == ToFloat(cost)
        p == ToFloat(price)
    IN  IF ~c.ok \/ ~p.ok THEN Pass
        ELSE IF Gt(c.v, p.v) THEN Res(FALSE, Msg("Cost > Price", <<c.v, p.v>>))
        ELSE Pass

\* variant of validate_stock that lets a value pass when it is no number, as
\* validate_cost_constraint does
validate_stock_permissive(value) ==
    LET st == ToFloat(value)
    IN  IF ~st.ok THEN Pass
        ELSE IF Lt(st.v, FloatV(0, 0)) THEN Res(FALSE, Msg("Negative stock", <<st.v>>))
        ELSE Pass

validate_stock(value) ==
    LET st == ToFloat(value)
    IN  IF ~st.ok THEN Res(FALSE, Msg("Not numeric", <<value>>))
        ELSE IF Lt(st.v, FloatV(0, 0)) THEN Res(FALSE, Msg("Negative stock", <<st.v>>))
        ELSE Pass

-----------------------------------------------------------------------------
(* DataValidator: record-level validation *)

Issue(type, detail, action) ==
    [issue_type |-> type, issue_detail |-> detail, action_taken |-> action]

\* 'key' in record
Has(record, key) == key \in DOMAIN record

\* record.get(key)
Get(record, key) == IF key \in DOMAIN record THEN record[key] ELSE NoneV

\* the set of issue lists the timestamp step can append
TimestampStep(record) ==
    IF Has(record, "order_time")
    THEN { IF ~r.valid THEN <<Issue("INVALID_TIMESTAMP", r.msg, "DROP")>> ELSE <<>> :
             r \in validate_timestamp(record["order_time"]) }
    ELSE {<<>>}

PriceStep(record) ==
    IF Has(record, "selling_price_aed")
    THEN LET r == validate_price(record["selling_price_aed"])
         IN  IF ~r.valid THEN <<Issue("OUTLIER_VALUE", r.msg, "CAP")>> ELSE <<>>
    ELSE <<>>

QuantityStep(record) ==
    IF Has(record, "qty")
    THEN LET r == validate_quantity(record["qty"])
         IN  IF ~r.valid THEN <<Issue("OUTLIER_VALUE", r.msg, "CAP")>> ELSE <<>>
    ELSE <<>>

\* variant of CityStep that runs the rule on record.get('city') without asking
\* whether the record has the field
CityStepUngated(record) ==
    LET r == validate_city(Get(record, "city"))
    IN  IF ~r.valid THEN <<Issue("INVALID_CITY", r.msg, "CORRECT")>> ELSE <<>>

CityStep(record) ==
    IF Has(record, "city")
    THEN LET r == validate_city(record["city"])
         IN  IF ~r.valid THEN <<Issue("INVALID_CITY", r.msg, "CORRECT")>> ELSE <<>>
    ELSE <<>>

ChannelStep(record) ==
    IF Has(record, "channel")
    THEN LET r == validate_channel(record["channel"])
         IN  IF ~r.valid THEN <<Issue("INVALID_CHANNEL", r.msg, "CORRECT")>> ELSE <<>>
    ELSE <<>>

\* variant of PaymentStatusStep that names the issue after the field
PaymentStatusStepUnlisted(record) ==
    IF Has(record, "payment_status")
    THEN LET r == validate_payment_status(record["payment_status"])
         IN  IF ~r.valid THEN <<Issue("INVALID_PAYMENT_STATUS", r.msg, "CORRECT")>> ELSE <<>>
    ELSE <<>>

PaymentStatusStep(record) ==
    IF Has(record, "payment_status")
    THEN LET r == validate_payment_status(record["payment_status"])
         IN  IF ~r.valid THEN <<Issue("INVALID_VALUE", r.msg, "CORRECT")>> ELSE <<>>
    ELSE <<>>

CostConstraintStep(record) ==
    IF Has(record, "unit_cost_aed") /\ Has(record, "base_price_aed")
    THEN LET r == validate_cost_constraint(record["unit_cost_aed"], record["base_price_aed"])
         IN  IF ~r.valid THEN <<Issue("CONSTRAINT_VIOLATION", r.msg, "CAP")>> ELSE <<>>
    ELSE <<>>

MissingDiscountStep(record) ==
    IF ~Has(record, "discount_pct") \/ IsNa(Get(record, "discount_pct"))
    THEN <<Issue("MISSING_VALUE", Msg("Missing discount_pct", <<>>), "IMPUTE")>>
    ELSE <<>>

\* variant of validate_sales_record with the city check ahead of the quantity check
validate_sales_record_reordered(record) ==
    { ts \o PriceStep(record) \o CityStep(record) \o QuantityStep(record)
         \o ChannelStep(record) \o PaymentStatusStep(record)
         \o CostConstraintStep(record) \o MissingDiscountStep(record) :
        ts \in TimestampStep(record) }

\* the set of issue lists validate_sales_record(record, record_id) can return
validate_sales_record(record) ==
    { ts \o PriceStep(record) \o QuantityStep(record) \o CityStep(record)
         \o ChannelStep(record) \o PaymentStatusStep(record)
         \o CostConstraintStep(record) \o MissingDiscountStep(record) :
        ts \in TimestampStep(record) }

StockStep(record) ==
    IF Has(record, "stock_on_hand")
    THEN LET r == validate_stock(record["stock_on_hand"])
         IN  IF ~r.valid THEN <<Issue("IMPOSSIBLE_VALUE", r.msg, "CORRECT")>> ELSE <<>>
    ELSE <<>>

validate_inventory_record(record) == StockStep(record)

\* variant of MissingUnitCostStep that reports an absent field only, not a
\* null one
MissingUnitCostStepAbsentOnly(record) ==
    IF ~Has(record, "unit_cost_aed")
    THEN <<Issue("MISSING_VALUE", Msg("Missing unit_cost_aed", <<>>), "IMPUTE")>>
    ELSE <<>>

MissingUnitCostStep(record) ==
    IF ~Has(record, "unit_cost_aed") \/ IsNa(Get(record, "unit_cost_aed"))
    THEN <<Issue("MISSING_VALUE", Msg("Missing unit_cost_aed", <<>>), "IMPUTE")>>
    ELSE <<>>

validate_products_record(record) == MissingUnitCostStep(record) \o CostConstraintStep(record)

-----------------------------------------------------------------------------
(* CleaningPolicies *)

POLICIES ==
    [ INVALID_TIMESTAMP |->
        [ action |-> "DROP",
          justification |->
            "Corrupted timestamps cannot be inferred; data integrity > completeness" ],
      OUTLIER_VALUE |->
        [ action |-> "CAP",
          justification |->
            "Cap at percentile bounds (95th percentile) to preserve data while fixing anomalies" ],
      MISSING_VALUE |->
        [ action |-> "IMPUTE",
          justification |->
            "discount_pct: set to 0 (no discount); unit_cost: impute as 50% of base_price" ],
      INVALID_CITY |->
        [ action |-> "CORRECT",
          justification |->
            "Standardize to valid city names (Dubai default); supports geospatial analysis" ],
      INVALID_CHANNEL |->
        [ action |-> "CORRECT",
          justification |->
            "Standardize to valid channel (App default); ensures channel consistency" ],
      INVALID_VALUE |->
        [ action |-> "CORRECT",
          justification |-> "payment_status: default to Paid; preserves transaction data" ],
      CONSTRAINT_VIOLATION |->
        [ action |-> "CAP",
          justification |->
            "unit_cost > base_price: cap unit_cost at base_price; maintains margin logic" ],
      IMPOSSIBLE_VALUE |->
        [ action |-> "CORRECT",
          justification |->
            "Negative stock: set to 0; stock > 1000: cap at 500 (supply chain bounds)" ] ]

\* variant of get_policy that indexes the table and falls back to the first
\* policy of the table instead of the SKIP default
get_policy_first_fallback(issue_type) ==
    IF issue_type \in DOMAIN policies THEN policies[issue_type]
    ELSE policies["INVALID_TIMESTAMP"]

\* CleaningPolicies.POLICIES.get(issue_type, {'action': 'SKIP', ...})
get_policy(issue_type) ==
    IF issue_type \in DOMAIN policies THEN policies[issue_type]
    ELSE [action |-> "SKIP", justification |-> "No policy defined"]

-----------------------------------------------------------------------------
(* Inputs *)

\* "YYYY-MM-DD HH:MM:SS" written from six numbers (strftime with zero padding)
MkTs(y, mo, d, h, mi, sec) ==
    PadDigits(y, 4) \o <<"-">> \o PadDigits(mo, 2) \o <<"-">> \o PadDigits(d, 2) \o <<" ">>
      \o PadDigits(h, 2) \o <<":">> \o PadDigits(mi, 2) \o <<":">> \o PadDigits(sec, 2)

TsYears == {1500, 2023, 2024}
TsMonths == {2, 12, 13}
TsDays == {0, 29, 31, 40}
TsHours == {23, 24, 99}
TsMinutes == {59, 99}
TsSeconds == {0, 99}

TsTexts ==
    { MkTs(y, mo, d, h, mi, sec) :
        y \in TsYears, mo \in TsMonths, d \in TsDays,
        h \in TsHours, mi \in TsMinutes, sec \in TsSeconds }

\* text that is not exactly a nineteen-character timestamp
OtherTsTexts ==
    { <<"2", "0", "2", "4", "-", "0", "1", "-", "1", "5">>,
      <<"2", "0", "2", "4", "-", "0", "1", "-", "1", "5", " ", "1", "0", ":", "3", "0", ":", "0", "0", "\n">>,
      <<" ", "2", "0", "2", "4", "-", "0", "1", "-", "1", "5", " ", "1", "0", ":", "3", "0", ":", "0", "0">>,
      <<"2", "0", "2", "4", "/", "0", "1", "/", "1", "5", " ", "1", "0", ":", "3", "0", ":", "0", "0">>,
      <<"2", "0", "2", "4", "-", "0", "1", "-", "1", "5", "T", "1", "0", ":", "3", "0", ":", "0", "0">>,
      <<"2", "0", "2", "4", "-", "1", "-", "5", " ", "1", ":", "2", ":", "3">>,
      <<"2", "0", "2", "4", "-", "0", "2", "-", "3", "0", " ", "1", "0", ":", "3", "0", ":", "0", "0", "\n">> }

Texts ==
    { <<>>,
      <<" ">>,
      <<"a", "b", "c">>,
      <<"5", "0">>,
      <<" ", "6", "0", " ">>,
      <<"1", "0", "0", "0", "0", ".", "0", "1">>,
      <<"1", "e", "2">>,
      <<"n", "a", "n">>,
      <<"-", "5">>,
      <<"1", "2", "a", "b", "c">>,
      <<".", "5">>,
      <<"D", "u", "b", "a", "i">>,
      <<" ", "D", "u", "b", "a", "i", " ">>,
      <<"d", "u", "b", "a", "i">>,
      <<"D", "u", "b", "a", "y", "y">>,
      <<"A", "b", "u", " ", "D", "h", "a", "b", "i">>,
      <<"S", "h", "a", "r", "j", "a", "h", "\n">>,
      <<"A", "p", "p">>,
      <<"W", "e", "b">>,
      <<"M", "a", "r", "k", "e", "t", "p", "l", "a", "c", "e">>,
      <<"a", "p", "p">>,
      <<"P", "a", "i", "d">>,
      <<"F", "a", "i", "l", "e", "d">>,
      <<"R", "e", "f", "u", "n", "d", "e", "d">>,
      <<"P", "A", "I", "D">>,
      <<"P", "a", "i", "d", "\t">> }

Numbers ==
    {IntV(n) : n \in {-50, -1, 0, 1, 2, 3, 40, 50, 60, 100, 101, 120, 10000, 10001, 15000}}
      \cup { FloatV(9, 1), FloatV(1009, 1), FloatV(1000001, 2), FloatV(-1, 2),
             FloatV(-9, 1), FloatV(15, 1), FloatV(100000, 1) }

Nulls == {NoneV, NaN}

\* first argument of a rule call
RuleArgs ==
    Nulls \cup {InfV(1), InfV(-1)} \cup Numbers
      \cup {StrV(t) : t \in Texts \cup TsTexts \cup OtherTsTexts}

\* second argument of validate_cost_constraint
PriceArgs ==
    Nulls \cup { IntV(50), IntV(0), FloatV(505, 1), InfV(1),
                 StrV(<<"5", "0">>), StrV(<<"a", "b", "c">>) }

\* marks a field left out of a drawn record
Absent == [kind |-> "absent", m |-> 0, e |-> 0, s |-> <<>>]

\* the record holding the fields of fv that are not Absent
MkRecord(fv) == [k \in {x \in DOMAIN fv : fv[x] # Absent} |-> fv[k]]

OrderTimeOpts ==
    { Absent, NaN, StrV(MkTs(2024, 13, 40, 99, 99, 99)), StrV(MkTs(2024, 2, 29, 23, 59, 0)) }
SellingPriceOpts == {Absent, NaN, IntV(50), IntV(15000)}
QtyOpts == {Absent, IntV(0), IntV(2), IntV(3)}
CityOpts == {Absent, StrV(<<"D", "u", "b", "a", "i">>), StrV(<<"D", "u", "b", "a", "y", "y">>), StrV(<<" ", "D", "u", "b", "a", "i", " ">>)}
ChannelOpts == {Absent, StrV(<<"A", "p", "p">>), StrV(<<"a", "p", "p">>)}
PaymentStatusOpts == {Absent, StrV(<<"P", "a", "i", "d">>), StrV(<<>>)}
UnitCostOpts == {Absent, IntV(60), StrV(<<"a", "b", "c">>)}
BasePriceOpts == {Absent, IntV(50), NoneV}
DiscountOpts == {Absent, NaN, NoneV, IntV(10)}
StockOpts ==
    { Absent, NaN, NoneV, IntV(-50), IntV(0), IntV(120), FloatV(-1, 2), InfV(-1),
      StrV(<<"a", "b", "c">>), StrV(<<"-", "5">>) }
ProductIdOpts == {Absent, StrV(<<"P", "1">>)}

EmptyRecord == MkRecord(<<>>)

\* issue_type arguments of get_policy: the keys of the table, and text that
\* is none of them (other case, padded, cut short, an action name, empty)
IssueTypes ==
    { "INVALID_TIMESTAMP", "OUTLIER_VALUE", "MISSING_VALUE", "INVALID_CITY",
      "INVALID_CHANNEL", "INVALID_VALUE", "CONSTRAINT_VIOLATION", "IMPOSSIBLE_VALUE",
      "", "invalid_city", "Outlier_Value", " MISSING_VALUE", "INVALID_VALUE ",
      "INVALID", "DUPLICATE_RECORD", "SKIP", "CAP", "action", "validate_stock" }

NoFirst == [called |-> FALSE, kind |-> "", out |-> <<>>, again |-> FALSE]
NoPolicy == [action |-> "", justification |-> ""]
NoWork == [kind |-> "", chunk |-> <<>>]

-----------------------------------------------------------------------------
(* Calls of the pure functions: the arguments are drawn in the initial      *)
(* state, each action is one call.                                          *)

NoCall ==
    /\ pc = "ready" /\ op = ""
    /\ ruleOut = Pass /\ recOut = <<>>
    /\ df = <<>> /\ kind = "" /\ result = <<>> /\ issues = <<>>
    /\ firstCall = NoFirst
    /\ policy = NoPolicy /\ policies = POLICIES
    /\ work = NoWork /\ chunked = <<>>

InitRules ==
    /\ NoCall
    /\ lookup = ""
    /\ a \in RuleArgs
    /\ b \in PriceArgs
    /\ rec = EmptyRecord

InitSalesRecord ==
    /\ NoCall
    /\ lookup = ""
    /\ a = NoneV /\ b = NoneV
    /\ \E ot \in OrderTimeOpts, sp \in SellingPriceOpts, qt \in QtyOpts, ci \in CityOpts,
          ch \in ChannelOpts, ps \in PaymentStatusOpts, uc \in UnitCostOpts,
          bp \in BasePriceOpts, di \in DiscountOpts :
         rec = MkRecord([order_time |-> ot, selling_price_aed |-> sp, qty |-> qt,
                         city |-> ci, channel |-> ch, payment_status |-> ps,
                         unit_cost_aed |-> uc, base_price_aed |-> bp, discount_pct |-> di])

InitInventoryRecord ==
    /\ NoCall
    /\ lookup = ""
    /\ a = NoneV /\ b = NoneV
    /\ \E st \in StockOpts, pid \in ProductIdOpts, qt \in {Absent, IntV(0)},
          ci \in {Absent, StrV(<<"D", "u", "b", "a", "y", "y">>)}, sp \in {Absent, IntV(15000)},
          ot \in {Absent, StrV(MkTs(2024, 13, 40, 99, 99, 99))} :
         rec = MkRecord([stock_on_hand |-> st, product_id |-> pid, qty |-> qt,
                         city |-> ci, selling_price_aed |-> sp, order_time |-> ot])

ProductCostOpts ==
    { Absent, NaN, NoneV, IntV(60), IntV(40), StrV(<<"a", "b", "c">>), StrV(<<>>) }
ProductPriceOpts == {Absent, NaN, NoneV, IntV(50), StrV(<<"a", "b", "c">>)}

InitProductsRecord ==
    /\ NoCall
    /\ lookup = ""
    /\ a = NoneV /\ b = NoneV
    /\ \E uc \in ProductCostOpts, bp \in ProductPriceOpts, pid \in ProductIdOpts,
          qt \in {Absent, IntV(0)}, ci \in {Absent, StrV(<<"D", "u", "b", "a", "y", "y">>)},
          st \in {Absent, IntV(-50)} :
         rec = MkRecord([unit_cost_aed |-> uc, base_price_aed |-> bp, product_id |-> pid,
                         qty |-> qt, city |-> ci, stock_on_hand |-> st])

InitPolicy ==
    /\ NoCall
    /\ a = NoneV /\ b = NoneV
    /\ rec = EmptyRecord
    /\ lookup \in IssueTypes

InitPure ==
    InitRules \/ InitSalesRecord \/ InitInventoryRecord \/ InitProductsRecord \/ InitPolicy

RuleCall(name, out) ==
    /\ pc = "ready"
    /\ rec = EmptyRecord
    /\ pc' = "done"
    /\ op' = name
    /\ ruleOut' = out
    /\ UNCHANGED <<a, b, rec, recOut, df, kind, result, issues, firstCall, policyVars, chunkVars>>

CallValidateTimestamp == \E r \in validate_timestamp(a) : RuleCall("validate_timestamp", r)
CallValidatePrice == RuleCall("validate_price", validate_price(a))
CallValidateQuantity == RuleCall("validate_quantity", validate_quantity(a))
CallValidateCity == RuleCall("validate_city", validate_city(a))
CallValidateChannel == RuleCall("validate_channel", validate_channel(a))
CallValidatePaymentStatus ==
    RuleCall("validate_payment_status", validate_payment_status(a))
CallValidateCostConstraint ==
    RuleCall("validate_cost_constraint", validate_cost_constraint(a, b))
CallValidateStock == RuleCall("validate_stock", validate_stock(a))

RecordCall(name, out) ==
    /\ pc = "ready"
    /\ rec # EmptyRecord
    /\ pc' = "done"
    /\ op' = name
    /\ recOut' = out
    /\ UNCHANGED <<a, b, ruleOut, rec, df, kind, result, issues, firstCall, policyVars, chunkVars>>

CallValidateSalesRecord ==
    \E out \in validate_sales_record(rec) : RecordCall("validate_sales_record", out)
CallValidateInventoryRecord ==
    RecordCall("validate_inventory_record", validate_inventory_record(rec))

CallValidateProductsRecord ==
    RecordCall("validate_products_record", validate_products_record(rec))

CallGetPolicy ==
    /\ pc = "ready"
    /\ rec = EmptyRecord
    /\ pc' = "done"
    /\ op' = "get_policy"
    /\ policy' = get_policy(lookup)
    /\ UNCHANGED <<a, b, ruleOut, rec, recOut, df, kind, result, issues, firstCall,
                   lookup, policies, chunkVars>>

NextPure ==
    \/ CallValidateTimestamp
    \/ CallValidatePrice
    \/ CallValidateQuantity
    \/ CallValidateCity
    \/ CallValidateChannel
    \/ CallValidatePaymentStatus
    \/ CallValidateCostConstraint
    \/ CallValidateStock
    \/ CallValidateSalesRecord
    \/ CallValidateInventoryRecord
    \/ CallValidateProductsRecord
    \/ CallGetPolicy

SpecPure == InitPure /\ [][NextPure]_vars

-----------------------------------------------------------------------------
(* DataValidator.validate_dataset.  A dataset is the sequence of its rows,   *)
(* every row a record over the same columns; the index is the default        *)
(* RangeIndex, so row i of the sequence has idx = i - 1.                      *)

\* bool(value): None, zero and '' are falsy, every other scalar (nan too) truthy
Truthy(v) ==
    CASE v.kind = "none" -> FALSE
      [] v.kind = "str" -> v.s # <<>>
      [] v.kind \in {"int", "float"} -> v.m # 0
      [] OTHER -> TRUE

\* f'ROW_{idx}'
RowLabel(idx) == StrV(<<"R", "O", "W", "_">> \o NatToDigits(idx))

\* row.get('order_id') or row.get('product_id') or f'ROW_{idx}'
RecordId(row, idx) ==
    IF Truthy(Get(row, "order_id")) THEN Get(row, "order_id")
    ELSE IF Truthy(Get(row, "product_id")) THEN Get(row, "product_id")
    ELSE RowLabel(idx)

Stamp(record_id, issue) ==
    [ record_identifier |-> record_id, issue_type |-> issue.issue_type,
      issue_detail |-> issue.issue_detail, action_taken |-> issue.action_taken ]

\* variant of RecordIssues in which the record validators append to the list
\* the validator retains instead of to a new list
RecordIssuesOnRetained(row, dataset_type) ==
    CASE dataset_type = "sales" -> {issues \o found : found \in validate_sales_record(row)}
      [] dataset_type = "inventory" -> {issues \o validate_inventory_record(row)}
      [] dataset_type = "products" -> {issues \o validate_products_record(row)}
      [] OTHER -> {<<>>}

\* variant of RecordIssues that validates a dataset of any other kind as sales
RecordIssuesDefaultSales(row, dataset_type) ==
    CASE dataset_type = "inventory" -> {validate_inventory_record(row)}
      [] dataset_type = "products" -> {validate_products_record(row)}
      [] OTHER -> validate_sales_record(row)

\* the issue lists the record validator of dataset_type can return for a row
RecordIssues(row, dataset_type) ==
    CASE dataset_type = "sales" -> validate_sales_record(row)
      [] dataset_type = "inventory" -> {validate_inventory_record(row)}
      [] dataset_type = "products" -> {validate_products_record(row)}
      [] OTHER -> {<<>>}

\* what one iteration of the loop can append for the row at position i
RowIssues(row, idx, dataset_type) ==
    { [j \in 1..Len(found) |-> Stamp(RecordId(row, idx), found[j])] :
        found \in RecordIssues(row, dataset_type) }

\* variant of IterRows that puts the issues of a row ahead of those of the
\* rows before it
RECURSIVE IterRowsPrepending(_, _, _)
IterRowsPrepending(rows, i, dataset_type) ==
    IF i > Len(rows) THEN {<<>>}
    ELSE { rest \o found : found \in RowIssues(rows[i], i - 1, dataset_type),
                           rest \in IterRowsPrepending(rows, i + 1, dataset_type) }

\* the values validation_issues can have after the rows from position i on
RECURSIVE IterRows(_, _, _)
IterRows(rows, i, dataset_type) ==
    IF i > Len(rows) THEN {<<>>}
    ELSE { first \o rest : first \in RowIssues(rows[i], i - 1, dataset_type),
                           rest \in IterRows(rows, i + 1, dataset_type) }

\* variant of validate_dataset that starts validation_issues from self.issues
\* instead of from the empty list
validate_dataset_accumulating(rows, dataset_type) ==
    {issues \o out : out \in IterRows(rows, 1, dataset_type)}

\* the set of issue sequences validate_dataset(df, dataset_type) can return
validate_dataset(rows, dataset_type) == IterRows(rows, 1, dataset_type)

-----------------------------------------------------------------------------
(* Datasets *)

MaxRows == 2

OrderIdOpts == {StrV(<<"O", "R", "D", "1">>), NaN, NoneV, StrV(<<>>)}
ProductIdColOpts == {StrV(<<"P", "1">>), NaN, NoneV}

\* a row with defects in every kind, and a row with none but the missing
\* discount_pct / unit_cost_aed columns
DataOpts ==
    { [qty |-> IntV(0), stock_on_hand |-> IntV(-50)],
      [qty |-> IntV(2), stock_on_hand |-> IntV(120)] }

\* the rows of a dataset with or without the order_id and product_id columns
RowsOf(withOrderId, withProductId) ==
    { MkRecord([order_id |-> oid, product_id |-> pid,
                qty |-> d.qty, stock_on_hand |-> d.stock_on_hand]) :
        oid \in (IF withOrderId THEN OrderIdOpts ELSE {Absent}),
        pid \in (IF withProductId THEN ProductIdColOpts ELSE {Absent}),
        d \in DataOpts }

SeqsUpTo(S, n) == UNION {[1..k -> S] : k \in 0..n}

Datasets ==
    UNION {SeqsUpTo(RowsOf(wo, wp), MaxRows) : wo \in BOOLEAN, wp \in BOOLEAN}

DatasetKinds == {"sales", "inventory", "products", "returns", "Sales"}

-----------------------------------------------------------------------------
(* The validator object: constructed, then validate_dataset is called on a   *)
(* dataset snapshot any number of times.                                     *)

Init ==
    /\ pc = "ready" /\ op = ""
    /\ a = NoneV /\ b = NoneV /\ ruleOut = Pass
    /\ rec = EmptyRecord /\ recOut = <<>>
    /\ df \in Datasets
    /\ kind = ""
    /\ result = <<>>
    /\ issues = <<>>
    /\ firstCall = NoFirst
    /\ lookup = "" /\ policy = NoPolicy /\ policies = POLICIES
    /\ work = NoWork /\ chunked = <<>>

\* self.issues = validation_issues; return pd.DataFrame(validation_issues)
ReturnIssues(dataset_type, validation_issues) ==
    /\ pc' = "done"
    /\ op' = "validate_dataset"
    /\ kind' = dataset_type
    /\ result' = validation_issues
    /\ issues' = validation_issues
    /\ UNCHANGED <<a, b, ruleOut, rec, recOut, df, policyVars, chunkVars>>

ValidateDataset(dataset_type) ==
    \E out \in validate_dataset(df, dataset_type) :
        /\ ReturnIssues(dataset_type, out)
        /\ UNCHANGED firstCall

Next == \E dataset_type \in DatasetKinds : ValidateDataset(dataset_type)

Spec == Init /\ [][Next]_vars

-----------------------------------------------------------------------------
(* One dataset snapshot over the life of validators: validators are          *)
(* constructed, and validate_dataset and the record-level validators are     *)
(* called on the snapshot and its rows in any order.  firstCall notes the    *)
(* first validate_dataset call made on the snapshot.                         *)

\* a row defective in every field, a row with no defect, and a row without
\* identifiers that has a null unit cost, a text stock and a quantity of 101
DirtyRow ==
    [ order_id |-> StrV(<<"O", "R", "D", "1">>), product_id |-> StrV(<<"P", "1">>),
      order_time |-> StrV(MkTs(2024, 13, 40, 99, 99, 99)),
      selling_price_aed |-> IntV(15000), qty |-> IntV(0),
      city |-> StrV(<<"D", "u", "b", "a", "y", "y">>), channel |-> StrV(<<"a", "p", "p">>),
      payment_status |-> StrV(<<>>), unit_cost_aed |-> IntV(60), base_price_aed |-> IntV(50),
      discount_pct |-> NaN, stock_on_hand |-> IntV(-50) ]

CleanRow ==
    [ order_id |-> NoneV, product_id |-> StrV(<<"P", "1">>),
      order_time |-> StrV(MkTs(2024, 2, 29, 23, 59, 0)),
      selling_price_aed |-> IntV(50), qty |-> IntV(2),
      city |-> StrV(<<"D", "u", "b", "a", "i">>), channel |-> StrV(<<"A", "p", "p">>),
      payment_status |-> StrV(<<"P", "a", "i", "d">>), unit_cost_aed |-> IntV(40),
      base_price_aed |-> IntV(50), discount_pct |-> IntV(10), stock_on_hand |-> IntV(120) ]

UnnamedRow ==
    [ order_id |-> NoneV, product_id |-> NoneV,
      order_time |-> StrV(MkTs(2024, 2, 29, 23, 59, 0)),
      selling_price_aed |-> IntV(50), qty |-> IntV(101),
      city |-> StrV(<<"D", "u", "b", "a", "i">>), channel |-> StrV(<<"A", "p", "p">>),
      payment_status |-> StrV(<<"P", "a", "i", "d">>), unit_cost_aed |-> NaN,
      base_price_aed |-> IntV(50), discount_pct |-> IntV(10),
      stock_on_hand |-> StrV(<<"a", "b", "c">>) ]

SessionRows == {DirtyRow, CleanRow, UnnamedRow}

SessionDatasets == SeqsUpTo(SessionRows, MaxRows)

InitSession ==
    /\ pc = "ready" /\ op = ""
    /\ a = NoneV /\ b = NoneV /\ ruleOut = Pass
    /\ rec = EmptyRecord /\ recOut = <<>>
    /\ df \in SessionDatasets
    /\ kind = ""
    /\ result = <<>>
    /\ issues = <<>>
    /\ firstCall = NoFirst
    /\ lookup = "" /\ policy = NoPolicy /\ policies = POLICIES
    /\ work = NoWork /\ chunked = <<>>

\* DataValidator(): a validator on which nothing has been called
Construct ==
    /\ pc' = "ready"
    /\ op' = "DataValidator"
    /\ rec' = EmptyRecord /\ recOut' = <<>>
    /\ kind' = ""
    /\ result' = <<>>
    /\ issues' = <<>>
    /\ UNCHANGED <<a, b, ruleOut, df, firstCall, policyVars, chunkVars>>

SessionValidateDataset(dataset_type) ==
    \E out \in validate_dataset(df, dataset_type) :
        /\ ReturnIssues(dataset_type, out)
        /\ firstCall' =
              IF firstCall.called THEN [firstCall EXCEPT !.again = TRUE]
              ELSE [called |-> TRUE, kind |-> dataset_type, out |-> out, again |-> FALSE]

\* variant of ValidateRecord in which the record-level validator keeps the
\* list it returns in self.issues
ValidateRecordRetaining(name, record, out) ==
    /\ pc' = "done"
    /\ op' = name
    /\ rec' = record
    /\ recOut' = out
    /\ issues' = out
    /\ UNCHANGED <<a, b, ruleOut, df, kind, result, firstCall, policyVars, chunkVars>>

\* a call of a record-level validator on the validator
ValidateRecord(name, record, out) ==
    /\ pc' = "done"
    /\ op' = name
    /\ rec' = record
    /\ recOut' = out
    /\ UNCHANGED <<a, b, ruleOut, df, kind, result, issues, firstCall, policyVars, chunkVars>>

SessionValidateSalesRecord ==
    \E i \in 1..Len(df) : \E out \in validate_sales_record(df[i]) :
        ValidateRecord("validate_sales_record", df[i], out)

SessionValidateInventoryRecord ==
    \E i \in 1..Len(df) :
        ValidateRecord("validate_inventory_record", df[i], validate_inventory_record(df[i]))

SessionValidateProductsRecord ==
    \E i \in 1..Len(df) :
        ValidateRecord("validate_products_record", df[i], validate_products_record(df[i]))

NextSession ==
    \/ Construct
    \/ \E dataset_type \in DatasetKinds : SessionValidateDataset(dataset_type)
    \/ SessionValidateSalesRecord
    \/ SessionValidateInventoryRecord
    \/ SessionValidateProductsRecord

SpecSession == InitSession /\ [][NextSession]_vars

-----------------------------------------------------------------------------
(* Chunked validation: the dataset is cut into contiguous chunks whose rows  *)
(* keep their index, one worker per chunk runs the loop of validate_dataset  *)
(* over its chunk on the shared validator, the workers' steps interleave in  *)
(* any order, and the chunk results are concatenated in chunk order.         *)

MaxChunkRows == 3

ChunkDatasets == SeqsUpTo(SessionRows, MaxChunkRows)

\* the positions at which the chunks start, for cuts after the rows in cutSet
ChunkStarts(n, cutSet) == IF n = 0 THEN {} ELSE {1} \cup {c + 1 : c \in cutSet}

\* the j-th smallest element of S
Nth(S, j) == CHOOSE x \in S : Cardinality({y \in S : y < x}) = j - 1

\* the workers of the chunks, none of which has started
ChunksOf(n, cutSet) ==
    LET starts == ChunkStarts(n, cutSet)
        k == Cardinality(starts)
    IN  [ j \in 1..k |->
            [ lo |-> Nth(starts, j),
              hi |-> IF j < k THEN Nth(starts, j + 1) - 1 ELSE n,
              next |-> Nth(starts, j),
              acc |-> <<>>,
              done |-> FALSE ] ]

RECURSIVE ConcatAcc(_, _)
ConcatAcc(chunk, j) ==
    IF j > Len(chunk) THEN <<>> ELSE chunk[j].acc \o ConcatAcc(chunk, j + 1)

InitChunked ==
    /\ pc = "ready" /\ op = ""
    /\ a = NoneV /\ b = NoneV /\ ruleOut = Pass
    /\ rec = EmptyRecord /\ recOut = <<>>
    /\ df \in ChunkDatasets
    /\ kind = ""
    /\ result = <<>>
    /\ issues = <<>>
    /\ firstCall = NoFirst
    /\ lookup = "" /\ policy = NoPolicy /\ policies = POLICIES
    /\ work = NoWork /\ chunked = <<>>

Partition(dataset_type, cutSet) ==
    /\ pc = "ready"
    /\ pc' = "running"
    /\ op' = "chunked"
    /\ work' = [kind |-> dataset_type, chunk |-> ChunksOf(Len(df), cutSet)]
    /\ UNCHANGED <<a, b, ruleOut, rec, recOut, df, kind, result, issues, firstCall,
                   policyVars, chunked>>

\* one iteration of the loop of validate_dataset by the worker of chunk w
WorkerRow(w) ==
    /\ pc = "running"
    /\ work.chunk[w].next <= work.chunk[w].hi
    /\ \E found \in RowIssues(df[work.chunk[w].next], work.chunk[w].next - 1, work.kind) :
          work' = [work EXCEPT !.chunk[w].acc = @ \o found, !.chunk[w].next = @ + 1]
    /\ UNCHANGED <<pc, op, a, b, ruleOut, rec, recOut, df, kind, result, issues, firstCall,
                   policyVars, chunked>>

\* the worker of chunk w leaves the loop: self.issues = validation_issues
WorkerReturn(w) ==
    /\ pc = "running"
    /\ work.chunk[w].next > work.chunk[w].hi
    /\ ~work.chunk[w].done
    /\ work' = [work EXCEPT !.chunk[w].done = TRUE]
    /\ issues' = work.chunk[w].acc
    /\ UNCHANGED <<pc, op, a, b, ruleOut, rec, recOut, df, kind, result, firstCall,
                   policyVars, chunked>>

Join ==
    /\ pc = "running"
    /\ \A w \in DOMAIN work.chunk : work.chunk[w].done
    /\ pc' = "done"
    /\ chunked' = ConcatAcc(work.chunk, 1)
    /\ UNCHANGED <<op, a, b, ruleOut, rec, recOut, df, kind, result, issues, firstCall,
                   policyVars, work>>

NextChunked ==
    \/ \E dataset_type \in DatasetKinds, cutSet \in SUBSET (1..(Len(df) - 1)) :
          Partition(dataset_type, cutSet)
    \/ \E w \in DOMAIN work.chunk : WorkerRow(w)
    \/ \E w \in DOMAIN work.chunk : WorkerReturn(w)
    \/ Join

SpecChunked == InitChunked /\ [][NextChunked]_vars

-----------------------------------------------------------------------------
(* Every function of the module called once: the calls of SpecPure, and      *)
(* validate_dataset on a drawn dataset.                                      *)

InitDataset ==
    /\ pc = "ready" /\ op = ""
    /\ a = NoneV /\ b = NoneV /\ ruleOut = Pass
    /\ rec = EmptyRecord /\ recOut = <<>>
    /\ df \in SessionDatasets
    /\ kind = ""
    /\ result = <<>>
    /\ issues = <<>>
    /\ firstCall = NoFirst
    /\ lookup = "" /\ policy = NoPolicy /\ policies = POLICIES
    /\ work = NoWork /\ chunked = <<>>

CallValidateDataset(dataset_type) ==
    /\ pc = "ready"
    /\ rec = EmptyRecord
    /\ \E out \in validate_dataset(df, dataset_type) : ReturnIssues(dataset_type, out)
    /\ UNCHANGED firstCall

InitCalls == InitPure \/ InitDataset

NextCalls ==
    \/ NextPure
    \/ \E dataset_type \in DatasetKinds : CallValidateDataset(dataset_type)

SpecCalls == InitCalls /\ [][NextCalls]_vars

-----------------------------------------------------------------------------
(* Properties of validate_sales_record and validate_inventory_record        *)

Returned(name) == pc = "done" /\ op = name

\* the (issue_type, action_taken) pairs of an issue list, in order
TypeActions(list) == [i \in 1..Len(list) |-> <<list[i].issue_type, list[i].action_taken>>]

CountOfType(list, type) == Cardinality({i \in 1..Len(list) : list[i].issue_type = type})

\* the eight checks of a sales record in order: check, issue_type, action_taken
SalesRuleOrder ==
    << <<"timestamp", "INVALID_TIMESTAMP", "DROP">>,
       <<"price", "OUTLIER_VALUE", "CAP">>,
       <<"quantity", "OUTLIER_VALUE", "CAP">>,
       <<"city", "INVALID_CITY", "CORRECT">>,
       <<"channel", "INVALID_CHANNEL", "CORRECT">>,
       <<"payment_status", "INVALID_VALUE", "CORRECT">>,
       <<"cost_constraint", "CONSTRAINT_VIOLATION", "CAP">>,
       <<"discount_pct", "MISSING_VALUE", "IMPUTE">> >>

\* whether a check fails on the record, given the timestamp rule's result ts
CheckFails(record, check, ts) ==
    CASE check = "timestamp" -> Has(record, "order_time") /\ ~ts.valid
      [] check = "price" ->
            Has(record, "selling_price_aed")
              /\ ~validate_price(record["selling_price_aed"]).valid
      [] check = "quantity" -> Has(record, "qty") /\ ~validate_quantity(record["qty"]).valid
      [] check = "city" -> Has(record, "city") /\ ~validate_city(record["city"]).valid
      [] check = "channel" ->
            Has(record, "channel") /\ ~validate_channel(record["channel"]).valid
      [] check = "payment_status" ->
            Has(record, "payment_status")
              /\ ~validate_payment_status(record["payment_status"]).valid
      [] check = "cost_constraint" ->
            Has(record, "unit_cost_aed") /\ Has(record, "base_price_aed")
              /\ ~validate_cost_constraint(record["unit_cost_aed"],
                                           record["base_price_aed"]).valid
      [] OTHER -> ~Has(record, "discount_pct") \/ IsNa(record["discount_pct"])

\* the pairs SalesRuleOrder prescribes for the failing checks, in rule order
ExpectedTypeActions(record, ts) ==
    LET Failing(step) == CheckFails(record, step[1], ts)
        sel == SelectSeq(SalesRuleOrder, Failing)
    IN  [i \in 1..Len(sel) |-> <<sel[i][2], sel[i][3]>>]

\* C1: validate_sales_record returns exactly one issue for each failing check
\* and none for a passing one, each with the issue_type and action_taken fixed
\* for its check, in the order timestamp, price, quantity, city, channel,
\* payment_status, cost_constraint, missing discount_pct.
C1_SalesIssuesInRuleOrder ==
    Returned("validate_sales_record") =>
        \E ts \in (IF Has(rec, "order_time") THEN validate_timestamp(rec["order_time"])
                   ELSE {Pass}) :
            TypeActions(recOut) = ExpectedTypeActions(rec, ts)

\* a sales record on which all eight checks fail
C1_Witness == Returned("validate_sales_record") /\ Len(recOut) = 8

\* C2: a rule whose field is not in the record produces no issue: without
\* order_time no INVALID_TIMESTAMP; without selling_price_aed (qty) every
\* OUTLIER_VALUE issue is the one of the qty (price) rule; without city, channel,
\* payment_status no INVALID_CITY, INVALID_CHANNEL, INVALID_VALUE; without
\* unit_cost_aed or base_price_aed no CONSTRAINT_VIOLATION; and an inventory
\* record without stock_on_hand yields no issue at all.
C2_AbsentFieldSkipsRule ==
    /\ Returned("validate_sales_record") =>
          /\ ~Has(rec, "order_time") => CountOfType(recOut, "INVALID_TIMESTAMP") = 0
          /\ ~Has(rec, "selling_price_aed") =>
                /\ CountOfType(recOut, "OUTLIER_VALUE") <= 1
                /\ \A i \in 1..Len(recOut) :
                      recOut[i].issue_type = "OUTLIER_VALUE" =>
                          /\ Has(rec, "qty")
                          /\ recOut[i].issue_detail = validate_quantity(rec["qty"]).msg
          /\ ~Has(rec, "qty") =>
                /\ CountOfType(recOut, "OUTLIER_VALUE") <= 1
                /\ \A i \in 1..Len(recOut) :
                      recOut[i].issue_type = "OUTLIER_VALUE" =>
                          /\ Has(rec, "selling_price_aed")
                          /\ recOut[i].issue_detail
                               = validate_price(rec["selling_price_aed"]).msg
          /\ ~Has(rec, "city") => CountOfType(recOut, "INVALID_CITY") = 0
          /\ ~Has(rec, "channel") => CountOfType(recOut, "INVALID_CHANNEL") = 0
          /\ ~Has(rec, "payment_status") => CountOfType(recOut, "INVALID_VALUE") = 0
          /\ ~(Has(rec, "unit_cost_aed") /\ Has(rec, "base_price_aed")) =>
                CountOfType(recOut, "CONSTRAINT_VIOLATION") = 0
    /\ Returned("validate_inventory_record") =>
          (~Has(rec, "stock_on_hand") => recOut = <<>>)

\* a sales record without order_time, city, channel and payment_status whose
\* present fields do produce issues
C2_Witness ==
    /\ Returned("validate_sales_record")
    /\ ~Has(rec, "order_time") /\ ~Has(rec, "city")
    /\ ~Has(rec, "channel") /\ ~Has(rec, "payment_status")
    /\ Has(rec, "qty") /\ Has(rec, "unit_cost_aed") /\ Has(rec, "base_price_aed")
    /\ CountOfType(recOut, "OUTLIER_VALUE") = 1
    /\ CountOfType(recOut, "CONSTRAINT_VIOLATION") = 1

ScenarioB ==
    [selling_price_aed |-> IntV(15000), qty |-> IntV(3), city |-> StrV(<<"D", "u", "b", "a", "y", "y">>)]

ScenarioBWithDiscount ==
    [ selling_price_aed |-> IntV(15000), qty |-> IntV(3), city |-> StrV(<<"D", "u", "b", "a", "y", "y">>),
      discount_pct |-> IntV(10) ]

\* C3 as stated: the record {selling_price_aed: 15000, qty: 3, city: "Dubayy"}
\* yields exactly two issues, OUTLIER_VALUE/CAP and INVALID_CITY/CORRECT.
C3_ScenarioBTwoIssues ==
    (Returned("validate_sales_record") /\ rec = ScenarioB) =>
        TypeActions(recOut) = << <<"OUTLIER_VALUE", "CAP">>, <<"INVALID_CITY", "CORRECT">> >>

\* C3 amended: that record yields three issues, OUTLIER_VALUE/CAP for the price
\* (outside [0, 10000]), INVALID_CITY/CORRECT and, its discount_pct being
\* absent, MISSING_VALUE/IMPUTE, and nothing from the channel and
\* payment_status rules; with a discount_pct of 10 added it yields just the
\* first two.
C3_ScenarioBThreeIssues ==
    /\ (Returned("validate_sales_record") /\ rec = ScenarioB) =>
          /\ TypeActions(recOut) =
                << <<"OUTLIER_VALUE", "CAP">>, <<"INVALID_CITY", "CORRECT">>,
                   <<"MISSING_VALUE", "IMPUTE">> >>
          /\ recOut[1].issue_detail =
                Msg("Outside range", <<IntV(0), IntV(10000), FloatV(15000, 0)>>)
    /\ (Returned("validate_sales_record") /\ rec = ScenarioBWithDiscount) =>
          TypeActions(recOut) = << <<"OUTLIER_VALUE", "CAP">>, <<"INVALID_CITY", "CORRECT">> >>

C3_Witness == Returned("validate_sales_record") /\ rec = ScenarioB /\ Len(recOut) = 3

\* C11: validate_products_record emits MISSING_VALUE/IMPUTE exactly when
\* unit_cost_aed is absent or null, emits CONSTRAINT_VIOLATION/CAP exactly when
\* unit_cost_aed and base_price_aed are both in the record and the
\* cost_constraint rule fails on them, puts MISSING_VALUE first, and emits
\* nothing else whatever the other fields hold.
C11_ProductsIssues ==
    Returned("validate_products_record") =>
        LET missing == \/ ~Has(rec, "unit_cost_aed")
                       \/ rec["unit_cost_aed"].kind \in {"none", "nan"}
            violated == /\ Has(rec, "unit_cost_aed") /\ Has(rec, "base_price_aed")
                        /\ ~validate_cost_constraint(rec["unit_cost_aed"],
                                                     rec["base_price_aed"]).valid
        IN  TypeActions(recOut) =
                (IF missing THEN << <<"MISSING_VALUE", "IMPUTE">> >> ELSE <<>>)
                  \o (IF violated THEN << <<"CONSTRAINT_VIOLATION", "CAP">> >> ELSE <<>>)

\* a products record with a null unit_cost_aed next to a base price and to
\* defects in fields that are not a product's
C11_Witness ==
    /\ Returned("validate_products_record")
    /\ Has(rec, "unit_cost_aed") /\ rec["unit_cost_aed"] = NaN
    /\ Has(rec, "base_price_aed") /\ Has(rec, "qty") /\ Has(rec, "stock_on_hand")
    /\ TypeActions(recOut) = << <<"MISSING_VALUE", "IMPUTE">> >>

-----------------------------------------------------------------------------
(* Properties of validate_dataset                                            *)

\* a value that is missing: the column is not there, or the cell is null
Missing(row, key) == ~Has(row, key) \/ IsNa(row[key])

\* the identifier the first non-missing candidate gives
FirstNonMissingId(row, idx) ==
    IF ~Missing(row, "order_id") THEN row["order_id"]
    ELSE IF ~Missing(row, "product_id") THEN row["product_id"]
    ELSE RowLabel(idx)

\* the outputs in which row i's issues carry FirstNonMissingId(row i, i - 1)
RECURSIVE StampedByFirstNonMissing(_, _, _)
StampedByFirstNonMissing(rows, i, dataset_type) ==
    IF i > Len(rows) THEN {<<>>}
    ELSE { [j \in 1..Len(found) |-> Stamp(FirstNonMissingId(rows[i], i - 1), found[j])]
              \o rest :
             found \in RecordIssues(rows[i], dataset_type),
             rest \in StampedByFirstNonMissing(rows, i + 1, dataset_type) }

\* C4: every issue of a row carries as record_identifier the row's order_id if
\* that is not missing, else its product_id if that is not missing, else
\* 'ROW_<index>'; a present-but-null order_id (product_id) falls through to the
\* next candidate.
C4_FirstNonMissingIdentifier ==
    Returned("validate_dataset") => result \in StampedByFirstNonMissing(df, 1, kind)

\* C12: validate_dataset with a kind other than 'sales', 'inventory' and
\* 'products' returns (and retains) the empty issue sequence, whatever the
\* rows hold.
C12_UnknownKindEmpty ==
    (Returned("validate_dataset") /\ kind \notin {"sales", "inventory", "products"}) =>
        result = <<>> /\ issues = <<>>

\* an unknown kind on two rows that are defective as sales and as inventory
C12_Witness ==
    /\ Returned("validate_dataset") /\ kind = "returns"
    /\ Len(df) = 2
    /\ \A i \in 1..2 : df[i]["qty"] = IntV(0) /\ df[i]["stock_on_hand"] = IntV(-50)
    /\ result = <<>>

\* out is the issue lists of the rows from position i on, one after the other
RECURSIVE SplitsByRow(_, _, _, _)
SplitsByRow(out, rows, i, dataset_type) ==
    IF i > Len(rows) THEN out = <<>>
    ELSE \E c \in 0..Len(out) :
            /\ SubSeq(out, 1, c) \in RowIssues(rows[i], i - 1, dataset_type)
            /\ SplitsByRow(SubSeq(out, c + 1, Len(out)), rows, i + 1, dataset_type)

\* C13: the sequence validate_dataset returns is the record-level issue list
\* of the first row, then that of the second row, and so on: the issues of a
\* row are contiguous and in its rule order, and those of row i come before
\* those of row j when i < j.
C13_RowOrderPreserved ==
    Returned("validate_dataset") => SplitsByRow(result, df, 1, kind)

\* two rows with different issues, both reported
C13_Witness ==
    /\ Returned("validate_dataset") /\ kind = "sales"
    /\ Len(df) = 2
    /\ df[1]["qty"] = IntV(2) /\ df[2]["qty"] = IntV(0)
    /\ Len(result) = 3
    /\ result[1].record_identifier # result[2].record_identifier
    /\ result[1].issue_type = "MISSING_VALUE" /\ result[2].issue_type = "OUTLIER_VALUE"

\* C14: on one dataset snapshot, a validate_dataset call returns the sequence
\* that the first call of the same kind on the snapshot returned, whatever
\* was called in between and whether on that validator or on a new one.
C14_SameSnapshotSameIssues ==
    (Returned("validate_dataset") /\ firstCall.kind = kind) => result = firstCall.out

\* a repeated sales validation of two rows, after a record-level call on the
\* same validator
C14_Witness ==
    /\ Returned("validate_dataset") /\ kind = "sales"
    /\ firstCall.again /\ firstCall.kind = "sales"
    /\ rec # EmptyRecord
    /\ Len(df) = 2 /\ Len(result) > 8

\* C16: the retained issue list is empty on a validator on which
\* validate_dataset has not been called, and otherwise is the sequence the
\* latest validate_dataset call on it returned, be it empty; calls of the
\* record-level validators leave it as it is.
C16_RetainsLatestResult ==
    /\ op \in {"", "DataValidator"} => issues = <<>>
    /\ issues = result

\* a record-level call that returns issues, made after a validate_dataset
\* call of another kind that returned issues
C16_Witness ==
    /\ Returned("validate_sales_record") /\ Len(recOut) = 8
    /\ kind = "inventory" /\ Len(result) = 1
    /\ issues = result

\* C18: for every cut of a dataset into contiguous chunks and every
\* interleaving of the chunks' workers, the chunk results concatenated in
\* chunk order are a sequence that validate_dataset returns for the whole
\* dataset.
C18_ChunkedEqualsSequential ==
    Returned("chunked") => chunked \in validate_dataset(df, work.kind)

\* three rows in two chunks, the second chunk finished first, and an issue of
\* the third row carrying its index in the whole dataset
C18_Witness ==
    /\ Returned("chunked") /\ work.kind = "sales"
    /\ Len(df) = 3 /\ Len(work.chunk) = 2
    /\ work.chunk[2].acc # <<>>
    /\ issues = work.chunk[1].acc /\ issues # work.chunk[2].acc
    /\ chunked[Len(chunked)].record_identifier = RowLabel(2)

-----------------------------------------------------------------------------
(* Properties of the rules.  What a raw value denotes is written down here   *)
(* independently of float(): the numeric texts among Texts with the number   *)
(* m / 10^e each one stands for.                                             *)

NumericTexts ==
    { <<<<"5", "0">>, 50, 0>>, <<<<" ", "6", "0", " ">>, 60, 0>>, <<<<"1", "0", "0", "0", "0", ".", "0", "1">>, 1000001, 2>>,
      <<<<"1", "e", "2">>, 100, 0>>, <<<<"-", "5">>, -5, 0>>, <<<<".", "5">>, 5, 1>> }

\* cls: "null" (None, nan), "finite" (the number m / 10^e), "inf" (sign m),
\* "nan" (the text nan), "text" (text that is no number)
Denoted(v) ==
    CASE v.kind \in {"none", "nan"} -> [cls |-> "null", m |-> 0, e |-> 0]
      [] v.kind \in {"int", "float"} -> [cls |-> "finite", m |-> v.m, e |-> v.e]
      [] v.kind = "inf" -> [cls |-> "inf", m |-> v.m, e |-> 0]
      [] OTHER ->
            IF \E nt \in NumericTexts : nt[1] = v.s
            THEN LET nt == CHOOSE x \in NumericTexts : x[1] = v.s
                 IN  [cls |-> "finite", m |-> nt[2], e |-> nt[3]]
            ELSE IF v.s = <<"n", "a", "n">> THEN [cls |-> "nan", m |-> 0, e |-> 0]
            ELSE [cls |-> "text", m |-> 0, e |-> 0]

\* lo <= m / 10^e <= hi
Within(d, lo, hi) == d.cls = "finite" /\ lo * Pow10(d.e) <= d.m /\ d.m <= hi * Pow10(d.e)

\* C5: validate_price returns invalid with a 'Not numeric' diagnostic for a
\* value that is no number (null included), and otherwise returns valid exactly
\* when 0 <= v <= 10000, the diagnostic of an invalid number citing [0, 10000].
C5_PriceValidIffInRange ==
    Returned("validate_price") =>
        LET d == Denoted(a)
        IN  IF d.cls \in {"null", "text"}
            THEN ~ruleOut.valid /\ ruleOut.msg.tag = "Not numeric"
            ELSE /\ ruleOut.valid <=> Within(d, 0, 10000)
                 /\ ~ruleOut.valid =>
                       /\ ruleOut.msg.tag = "Outside range"
                       /\ SubSeq(ruleOut.msg.args, 1, 2) = <<IntV(0), IntV(10000)>>

\* q is the number m / 10^e with its fractional part cut off (toward zero)
IsTruncation(q, d) ==
    IF d.m >= 0 THEN q * Pow10(d.e) <= d.m /\ d.m < (q + 1) * Pow10(d.e)
    ELSE (q - 1) * Pow10(d.e) < d.m /\ d.m <= q * Pow10(d.e)

\* C6: validate_quantity returns valid exactly when the value is a number whose
\* truncation toward zero q satisfies 1 <= q <= 100; an invalid number is
\* reported with that q and the bound [1, 100]; a value that is no number
\* (null included) is invalid with a 'Not numeric' diagnostic.
C6_QuantityTruncates ==
    Returned("validate_quantity") =>
        LET d == Denoted(a)
        IN  IF d.cls = "finite"
            THEN /\ ruleOut.valid <=> \E q \in 1..100 : IsTruncation(q, d)
                 /\ ~ruleOut.valid =>
                       /\ ruleOut.msg.tag = "Outside range"
                       /\ SubSeq(ruleOut.msg.args, 1, 2) = <<IntV(1), IntV(100)>>
                       /\ ruleOut.msg.args[3].kind = "int"
                       /\ IsTruncation(ruleOut.msg.args[3].m, d)
            ELSE ~ruleOut.valid /\ ruleOut.msg.tag = "Not numeric"

\* 100.9 is accepted: it truncates to 100
C6_Witness == Returned("validate_quantity") /\ a = FloatV(1009, 1) /\ ruleOut.valid

\* C7: validate_cost_constraint returns valid whenever one of its arguments is
\* no number (null or non-numeric text), and for two numbers returns invalid
\* exactly when cost > price.
C7_CostConstraint ==
    Returned("validate_cost_constraint") =>
        LET c == Denoted(a)
            p == Denoted(b)
        IN  /\ (c.cls \in {"null", "text", "nan"} \/ p.cls \in {"null", "text", "nan"}) =>
                  ruleOut.valid
            /\ (c.cls = "finite" /\ p.cls = "finite") =>
                  (~ruleOut.valid <=> c.m * Pow10(p.e) > p.m * Pow10(c.e))
            /\ (c.cls = "inf" /\ p.cls = "finite") => (~ruleOut.valid <=> c.m = 1)
            /\ (c.cls = "finite" /\ p.cls = "inf") => (~ruleOut.valid <=> p.m = -1)
            /\ (c.cls = "inf" /\ p.cls = "inf") => (~ruleOut.valid <=> c.m > p.m)

\* cost 60 against price 50 is rejected
C7_Witness ==
    Returned("validate_cost_constraint") /\ a = IntV(60) /\ b = IntV(50) /\ ~ruleOut.valid

\* C8: validate_inventory_record returns the single issue IMPOSSIBLE_VALUE /
\* CORRECT exactly when stock_on_hand is in the record and is no number (null
\* included) or a negative number, and no issue otherwise.
C8_InventoryStockOnly ==
    Returned("validate_inventory_record") =>
        LET bad == /\ Has(rec, "stock_on_hand")
                   /\ LET d == Denoted(rec["stock_on_hand"])
                      IN  \/ d.cls \in {"null", "text", "nan"}
                          \/ d.m < 0
        IN  IF bad THEN TypeActions(recOut) = << <<"IMPOSSIBLE_VALUE", "CORRECT">> >>
            ELSE recOut = <<>>

\* runs of whitespace around a trimmed value
Pads == {<<>>, <<" ">>, <<"\t">>, <<"\n">>, <<" ", " ">>}

\* the text is a member of the set once the whitespace at both ends is removed
TrimsInto(v, valid_set) ==
    v.kind = "str" /\ \E w \in valid_set, l \in Pads, r \in Pads : v.s = l \o w \o r

\* C9: validate_city, validate_channel and validate_payment_status return
\* invalid for a null value and for the empty string, and otherwise valid
\* exactly when the trimmed value is, case-sensitively, one of {Dubai, Abu
\* Dhabi, Sharjah}, {App, Web, Marketplace}, {Paid, Failed, Refunded}.
C9_ClosedSetMembership ==
    /\ Returned("validate_city") =>
          /\ (IsNa(a) \/ a = StrV(<<>>)) => ~ruleOut.valid
          /\ ruleOut.valid <=>
                TrimsInto(a, {<<"D", "u", "b", "a", "i">>, <<"A", "b", "u", " ", "D", "h", "a", "b", "i">>, <<"S", "h", "a", "r", "j", "a", "h">>})
    /\ Returned("validate_channel") =>
          /\ (IsNa(a) \/ a = StrV(<<>>)) => ~ruleOut.valid
          /\ ruleOut.valid <=>
                TrimsInto(a, {<<"A", "p", "p">>, <<"W", "e", "b">>, <<"M", "a", "r", "k", "e", "t", "p", "l", "a", "c", "e">>})
    /\ Returned("validate_payment_status") =>
          /\ (IsNa(a) \/ a = StrV(<<>>)) => ~ruleOut.valid
          /\ ruleOut.valid <=>
                TrimsInto(a, {<<"P", "a", "i", "d">>, <<"F", "a", "i", "l", "e", "d">>, <<"R", "e", "f", "u", "n", "d", "e", "d">>})

\* " Dubai " is accepted as a city
C9_Witness == Returned("validate_city") /\ a = StrV(<<" ", "D", "u", "b", "a", "i", " ">>) /\ ruleOut.valid

MonthLengths == <<31, 28, 31, 30, 31, 30, 31, 31, 30, 31, 30, 31>>

\* the six numbers name a date and time of the (Gregorian) calendar
RealDateTime(y, mo, d, h, mi, sec) ==
    /\ mo >= 1 /\ mo <= 12
    /\ d >= 1
    /\ d <= MonthLengths[mo]
              + (IF mo = 2 /\ y % 4 = 0 /\ (y % 100 # 0 \/ y % 400 = 0) THEN 1 ELSE 0)
    /\ h <= 23 /\ mi <= 59 /\ sec <= 59

\* the drawn text that does not have the shape YYYY-MM-DD HH:MM:SS, one
\* trailing newline aside
UnshapedTexts == Texts \cup {t \in OtherTsTexts : t[Len(t)] # "\n"}

ScenarioA ==
    [ order_time |-> StrV(MkTs(2024, 13, 40, 99, 99, 99)), selling_price_aed |-> IntV(50),
      qty |-> IntV(2), city |-> StrV(<<"D", "u", "b", "a", "i">>), channel |-> StrV(<<"A", "p", "p">>),
      payment_status |-> StrV(<<"P", "a", "i", "d">>), discount_pct |-> IntV(10) ]

ScenarioAHolds ==
    (Returned("validate_sales_record") /\ rec = ScenarioA) =>
        TypeActions(recOut) = << <<"INVALID_TIMESTAMP", "DROP">> >>

TimestampFailures ==
    Returned("validate_timestamp") =>
        /\ (IsNa(a) \/ a = StrV(<<>>)) => ~ruleOut.valid
        /\ (a.kind # "str" \/ a.s \in UnshapedTexts) => ~ruleOut.valid
        /\ \A y \in TsYears, mo \in TsMonths, d \in TsDays,
              h \in TsHours, mi \in TsMinutes, sec \in TsSeconds :
                (a = StrV(MkTs(y, mo, d, h, mi, sec)) /\ ~RealDateTime(y, mo, d, h, mi, sec))
                    => ~ruleOut.valid

\* C10 as stated: validate_timestamp fails for a null or empty value, for a
\* value not of the shape YYYY-MM-DD HH:MM:SS and for one of that shape that is
\* no real date and time, and succeeds for every other value; and scenario A
\* yields the single issue INVALID_TIMESTAMP/DROP.
C10_TimestampSucceedsOtherwise ==
    /\ TimestampFailures
    /\ ScenarioAHolds
    /\ Returned("validate_timestamp") =>
          /\ \A y \in TsYears, mo \in TsMonths, d \in TsDays,
                h \in TsHours, mi \in TsMinutes, sec \in TsSeconds :
                  (a = StrV(MkTs(y, mo, d, h, mi, sec)) /\ RealDateTime(y, mo, d, h, mi, sec))
                      => ruleOut.valid
          /\ (a.kind = "str" /\ a.s \in OtherTsTexts) => ~ruleOut.valid

\* C10 amended: the three failures as stated (a text that has the shape but
\* for one trailing newline is passed on to the parser like one that has it);
\* success for every text of exactly the shape YYYY-MM-DD HH:MM:SS that names a
\* real date and time of the years 1678 to 2261, which pandas' nanosecond
\* Timestamp holds whole; and scenario A as stated.
C10_TimestampSucceedsInRange ==
    /\ TimestampFailures
    /\ ScenarioAHolds
    /\ Returned("validate_timestamp") =>
          /\ \A y \in TsYears, mo \in TsMonths, d \in TsDays,
                h \in TsHours, mi \in TsMinutes, sec \in TsSeconds :
                  ( /\ a = StrV(MkTs(y, mo, d, h, mi, sec))
                    /\ RealDateTime(y, mo, d, h, mi, sec)
                    /\ y >= 1678 /\ y <= 2261 ) => ruleOut.valid
          /\ a = StrV(<<"2", "0", "2", "4", "-", "0", "2", "-", "3", "0", " ", "1", "0", ":", "3", "0", ":", "0", "0", "\n">>) => ~ruleOut.valid

\* 2024-02-29 23:59:00, a leap day, is accepted
C10_Witness ==
    Returned("validate_timestamp") /\ a = StrV(MkTs(2024, 2, 29, 23, 59, 0)) /\ ruleOut.valid

RuleNames ==
    { "validate_timestamp", "validate_price", "validate_quantity", "validate_city",
      "validate_channel", "validate_payment_status", "validate_cost_constraint",
      "validate_stock" }

\* float(v) raises: None, and text that is no number
FloatFails(v) == v.kind = "none" \/ (v.kind = "str" /\ Denoted(v).cls = "text")

\* int(float(v)) raises: float(v) does, or gives nan or an infinity
IntFails(v) == FloatFails(v) \/ v.kind \in {"nan", "inf"} \/ Denoted(v).cls = "nan"

\* text of the shape YYYY-MM-DD HH:MM:SS that names no date and time
UnparsableTimestamp(v) ==
    \E y \in TsYears, mo \in TsMonths, d \in TsDays,
       h \in TsHours, mi \in TsMinutes, sec \in TsSeconds :
        v = StrV(MkTs(y, mo, d, h, mi, sec)) /\ ~RealDateTime(y, mo, d, h, mi, sec)

\* the coercion the rule attempts fails on the arguments of the call
CoercionFails(rule) ==
    CASE rule = "validate_timestamp" -> UnparsableTimestamp(a)
      [] rule = "validate_price" -> FloatFails(a)
      [] rule = "validate_quantity" -> IntFails(a)
      [] rule = "validate_stock" -> FloatFails(a)
      [] rule = "validate_cost_constraint" -> FloatFails(a) \/ FloatFails(b)
      [] OTHER -> FALSE

\* every rule call returns a pair (valid, diagnostic), the diagnostic present
\* exactly on an invalid result
RulesReturnResults ==
    \A rule \in RuleNames :
        Returned(rule) =>
            /\ ruleOut.valid \in BOOLEAN
            /\ ruleOut.valid <=> ruleOut.msg = NoMsg

\* validate_dataset can complete on the dataset for every kind, and what it
\* returns is a sequence of issues
ValidateDatasetCompletes ==
    /\ \A dataset_type \in DatasetKinds : validate_dataset(df, dataset_type) # {}
    /\ Returned("validate_dataset") =>
          \A i \in 1..Len(result) :
              DOMAIN result[i] =
                  {"record_identifier", "issue_type", "issue_detail", "action_taken"}

\* C17 as stated: every rule returns a (valid, diagnostic) result for every
\* raw scalar, an invalid one with a diagnostic when the coercion it attempts
\* fails, and validate_dataset runs to completion on every dataset.
C17_CoercionFailureInvalid ==
    /\ RulesReturnResults
    /\ \A rule \in RuleNames :
          (Returned(rule) /\ CoercionFails(rule)) =>
              ~ruleOut.valid /\ ruleOut.msg # NoMsg
    /\ ValidateDatasetCompletes

\* C17 amended: as stated for the timestamp, price, quantity and stock rules;
\* validate_cost_constraint returns valid, without diagnostic, when the
\* coercion of either argument fails.
C17_CoercionFailureReported ==
    /\ RulesReturnResults
    /\ \A rule \in RuleNames \ {"validate_cost_constraint"} :
          (Returned(rule) /\ CoercionFails(rule)) =>
              ~ruleOut.valid /\ ruleOut.msg # NoMsg
    /\ (Returned("validate_cost_constraint") /\ CoercionFails("validate_cost_constraint")) =>
          ruleOut = Pass
    /\ ValidateDatasetCompletes

\* the text abc is reported by validate_stock as not numeric
C17_Witness ==
    /\ Returned("validate_stock") /\ a = StrV(<<"a", "b", "c">>)
    /\ ~ruleOut.valid /\ ruleOut.msg.tag = "Not numeric"

-----------------------------------------------------------------------------
(* Properties of CleaningPolicies                                            *)

\* the action documented for each known issue type
KnownActions ==
    { <<"INVALID_TIMESTAMP", "DROP">>, <<"OUTLIER_VALUE", "CAP">>,
      <<"MISSING_VALUE", "IMPUTE">>, <<"INVALID_CITY", "CORRECT">>,
      <<"INVALID_CHANNEL", "CORRECT">>, <<"INVALID_VALUE", "CORRECT">>,
      <<"CONSTRAINT_VIOLATION", "CAP">>, <<"IMPOSSIBLE_VALUE", "CORRECT">> }

KnownTypes == {ka[1] : ka \in KnownActions}

\* C15: get_policy returns, for each of the eight known issue types, the
\* action documented for it, and for every other issue_type the default
\* (SKIP, "No policy defined"); the lookup leaves the table as it was built.
C15_GetPolicyTotal ==
    /\ policies = POLICIES
    /\ Returned("get_policy") =>
          /\ \A ka \in KnownActions : lookup = ka[1] => policy.action = ka[2]
          /\ lookup \notin KnownTypes =>
                policy = [action |-> "SKIP", justification |-> "No policy defined"]

\* a lookup of a key in the wrong case gets the default
C15_Witness ==
    Returned("get_policy") /\ lookup = "invalid_city" /\ policy.action = "SKIP"

\* C19: every issue validate_dataset emits has one of the eight issue types
\* of the policy table, so that get_policy does not fall back to SKIP for it,
\* and carries as action_taken the action get_policy gives for its type.
C19_IssuesMatchPolicies ==
    Returned("validate_dataset") =>
        \A i \in 1..Len(result) :
            /\ result[i].issue_type \in KnownTypes
            /\ result[i].issue_type \in DOMAIN policies
            /\ get_policy(result[i].issue_type).action # "SKIP"
            /\ result[i].action_taken = get_policy(result[i].issue_type).action

\* a sales validation that emits all seven issue types of a sales record
C19_Witness ==
    /\ Returned("validate_dataset") /\ kind = "sales"
    /\ Cardinality({result[i].issue_type : i \in 1..Len(result)}) = 7

====
